---- MODULE Spec2Model ----
(***************************************************************************)
(* The MT5 -> Supabase reconciliation bridge of MT5-WS-PIPELINE, as the    *)
(* repository's sources give it: the Python bridge loop (main_loop,        *)
(* detect_closes, process_closed_tickets), the store schema (positions,    *)
(* trades, idx_trades_unique) and the retry policy ("max 3 attempts").     *)
(*                                                                         *)
(* The terminal is the environment: it opens and closes tickets at any     *)
(* time.  The bridge polls it one tick at a time; every network call of a  *)
(* tick is one attempt per step, so that failures, lost acknowledgements   *)
(* and process restarts can fall between any two calls.                    *)
(***************************************************************************)
EXTENDS Naturals, FiniteSets, Sequences

\* Bounds of the model.
MaxTicket == 2
MaxClock == 1

\* "Supabase timeouts: Retry with jitter, max 3 attempts"
MaxAttempts == 3
MaxProfit == 3      \* the values a position row can hold are 0..MaxProfit
MaxUpserts == 4     \* upserts of single position rows that are followed
MaxWrites == 2      \* writes to a table that a hook's view of it is followed through
MaxPending == 2     \* fetch requests of a hook that are in flight at once
MaxLimit == 2       \* useLiveTrades is mounted with a limit of 1..MaxLimit

Tickets == 1..MaxTicket
Times == 0..MaxClock
TradeActions == {"OPEN", "CLOSE"}

VARIABLES
    termOpen,           \* terminal: tickets currently open
    termClosed,         \* terminal: tickets with a closing deal in its history
    now,                \* wall clock (NOW() of the store, fetch time of the bridge)
    positions,          \* store: tickets that have a row in table positions
    trades,             \* store: rows of table trades
    seen_open_tickets,  \* bridge: main_loop's baseline
    pc,                 \* bridge: "idle" (sleeping), "fetch", "upsert", "process"
    snap,               \* bridge: main_loop's local `positions` (tickets fetched)
    deals,              \* bridge: the terminal's closed-deals feed as of the fetch
    todo,               \* bridge: closed tickets process_closed_tickets has yet to append
    attempts,           \* retry: failed attempts of the call in progress
    exec,               \* retry: how the last finished call ended
    tickNo,             \* history: ticks started since the process (re)started, capped at 2
    lastTick,           \* history: outcome of the last finished tick
    durable,            \* history: tickets the store held as open when the process
                        \* (re)started, kept until its second tick starts
    emitted,            \* history: <<ticket, action>> of the trade rows committed in this tick
    ptable,             \* store: rows of table positions with their values
    lastUp,             \* history: the position row of the last upsert
    upCount,            \* history: upserts done so far, capped at MaxUpserts
    bridge_status,      \* store: column status of the single row of table bridge_status
    hbFresh,            \* history: send_heartbeat has run since the last tick ended
    db,                 \* store: for each table, the version of its row of id 1
    schema,             \* store: which of the two schema scripts created the policies
    lastReq,            \* history: the last statement a client sent and what the store did
    viewPositions,      \* useLivePositions: state `positions`
    loading,            \* hook: state `loading`
    error,              \* hook: state `error` ("null" or what the message is about)
    mounted,            \* hook: the component that uses the hook is mounted
    subscription,       \* hook: the effect's `subscription` and what became of the channel
    pending,            \* hook: fetch requests in flight, with the answer each will bring
    events,             \* realtime: changes sent to the hook's channel, not yet delivered
    writes,             \* history: writes to the hook's table so far, capped at MaxWrites
    viewTrades,         \* useLiveTrades: `trades`, newest first
    limit,              \* useLiveTrades: the hook's argument
    lastTradeId,        \* store: the id of the newest row of table trades (ids are 1..lastTradeId)
    viewStatus,         \* useBridgeStatus: `status`, <<record>> or <<>> for null
    statusRow           \* store: the single row of table bridge_status, as the hook reads it

\* The bridge loop, the terminal and the two tables the loop writes.
bridgeVars == <<termOpen, termClosed, now, positions, trades, seen_open_tickets, pc, snap,
                deals, todo, attempts, exec, tickNo, lastTick, durable, emitted>>

\* The full rows of positions (upsert by ticket).
upsertVars == <<ptable, lastUp, upCount>>

\* The heartbeat row.
heartbeatVars == <<bridge_status, hbFresh>>

\* Row level security of the three tables.
accessVars == <<db, schema, lastReq>>

\* A React hook of the frontend, its channel, and the writes to its table.
positionsHookVars == <<viewPositions, loading, error, mounted, subscription, pending,
                       events, writes>>
tradesVars == <<viewTrades, limit, lastTradeId>>
statusVars == <<viewStatus, statusRow>>
hookVars == <<positionsHookVars, tradesVars, statusVars>>

vars == <<bridgeVars, upsertVars, heartbeatVars, accessVars, hookVars>>

----------------------------------------------------------------------------
\* The store.

\* A row of table trades, by the columns the unique index reads (the surrogate
\* id and the descriptive columns take no part in any decision).
TradeRow(tbl, t, a, ts) == [ticket |-> t, action |-> a, timestamp |-> ts]

\* CREATE UNIQUE INDEX idx_trades_unique ON trades(ticket, action, timestamp)
TradeKey(r) == <<r.ticket, r.action, r.timestamp>>

\* append_trade: the insert is refused when it conflicts with idx_trades_unique.
append_trade(tbl, t, a, ts) ==
    IF \E r \in tbl : TradeKey(r) = TradeKey(TradeRow(tbl, t, a, ts))
    THEN tbl
    ELSE tbl \cup {TradeRow(tbl, t, a, ts)}

\* upsert_positions: one row per ticket (ticket is the primary key); rows of
\* tickets that are not in the snapshot are left as they are.
upsert_positions(tbl, current) == tbl \cup current

\* A row of table positions: the primary key and one of the columns that
\* change while the position is open.
PositionRow(t, v) == [ticket |-> t, profit |-> v]

PositionRows == {PositionRow(t, v) : t \in Tickets, v \in 0..MaxProfit}

\* Variant: a plain insert, which keeps what is there.
insert_row(tbl, p) == tbl \cup {p}

\* Upsert by ticket (the primary key): the row of the ticket is replaced or
\* added, every other row stays.
upsert_row(tbl, p) == {r \in tbl : r.ticket # p.ticket} \cup {p}

\* What the store answers to an insert: the row was inserted, or it was already
\* there under the unique index.
InsertOutcome(tbl, t, a, ts) ==
    IF \E r \in tbl : TradeKey(r) = TradeKey(TradeRow(tbl, t, a, ts))
    THEN "duplicate"
    ELSE "inserted"

\* Variant: a uniqueness conflict is raised as an error of the call.
ConflictRaises(o) == o = "inserted"

\* "uniqueness check before insert": a trade that is already there is skipped,
\* which is not an error of the call.
OutcomeIsSuccess(o) == o \in {"inserted", "duplicate"}

HasRow(tbl, t, a) == \E r \in tbl : r.ticket = t /\ r.action = a
RowCount(tbl, t, a) == Cardinality({r \in tbl : r.ticket = t /\ r.action = a})

\* What the store holds as open: a position row, or an OPEN with no CLOSE.
StoreOpen(pos, tbl) ==
    pos \cup {t \in Tickets : HasRow(tbl, t, "OPEN") /\ ~HasRow(tbl, t, "CLOSE")}

----------------------------------------------------------------------------
\* The bridge's pure steps.

\* detect_closes: tickets that were open but are now missing.
detect_closes(seen_tickets, current_tickets) == seen_tickets \ current_tickets

\* Variant: an OPEN for every ticket of the snapshot that the baseline lacks.
detect_opens_diff(seen_tickets, current_tickets) == current_tickets \ seen_tickets

\* The tickets main_loop appends an OPEN trade for: none, the loop only
\* upserts the positions and processes the closed tickets.
detect_opens(seen_tickets, current_tickets) == {}

\* seen_open_tickets = set() at the top of main_loop.
InitialBaseline(pos, tbl) == {}

\* Variant: the baseline is assigned although the tick raised.
BaselineAssignedAnyway(seen_tickets, current_tickets) == current_tickets

\* The baseline after a tick that raised: the assignment on the line before
\* time.sleep is skipped.
BaselineAfterException(seen_tickets, current_tickets) == seen_tickets

\* Variant: one attempt too many.
ExhaustedLate(n) == n > MaxAttempts

\* "max 3 attempts": n attempts have been made.
Exhausted(n) == n >= MaxAttempts

----------------------------------------------------------------------------
\* The retry policy around every network call.

Success(n) == [outcome |-> "ok", attempts |-> n]
Failure(n) == [outcome |-> "failure", attempts |-> n]
Duplicate(n) == [outcome |-> "duplicate", attempts |-> n]
NoCall == [outcome |-> "none", attempts |-> 0]

\* The store refused the call because of the record of ticket t: not a
\* timeout, so the call is not tried again.
Rejected(t) == [outcome |-> "rejected", attempts |-> 1, ticket |-> t]

\* One more attempt of the call in progress has failed.  While attempts are
\* left the call is retried (the bridge stays where it is); after the last one
\* the failure reaches main_loop's handler, which ends the tick and goes on
\* to the next one.
FailedAttempt ==
    IF Exhausted(attempts + 1)
    THEN /\ exec' = Failure(attempts + 1)
         /\ attempts' = 0
         /\ pc' = "idle"
         /\ lastTick' = "failed"
         /\ todo' = {}
         /\ seen_open_tickets' = BaselineAfterException(seen_open_tickets, snap)
    ELSE /\ attempts' = attempts + 1
         /\ UNCHANGED <<exec, pc, lastTick, todo, seen_open_tickets>>

\* The call in progress has succeeded at this attempt.
SucceededAttempt ==
    /\ exec' = Success(attempts + 1)
    /\ attempts' = 0

----------------------------------------------------------------------------
\* The terminal and the clock (environment).

\* A position is opened at the terminal; ticket numbers are never reused.
OpenPosition(t) ==
    /\ t \notin termOpen \cup termClosed
    /\ termOpen' = termOpen \cup {t}
    /\ UNCHANGED <<termClosed, now, positions, trades, seen_open_tickets, pc, snap,
                   deals, todo, attempts, exec, tickNo, lastTick, durable, emitted>>

\* A position is closed at the terminal: it leaves the open list and its
\* closing deal enters the history.
ClosePosition(t) ==
    /\ t \in termOpen
    /\ termOpen' = termOpen \ {t}
    /\ termClosed' = termClosed \cup {t}
    /\ UNCHANGED <<now, positions, trades, seen_open_tickets, pc, snap,
                   deals, todo, attempts, exec, tickNo, lastTick, durable, emitted>>

AdvanceClock ==
    /\ now < MaxClock
    /\ now' = now + 1
    /\ UNCHANGED <<termOpen, termClosed, positions, trades, seen_open_tickets, pc, snap,
                   deals, todo, attempts, exec, tickNo, lastTick, durable, emitted>>

----------------------------------------------------------------------------
\* The bridge process.

BridgeInit ==
    /\ termOpen = {}
    /\ termClosed = {}
    /\ now = 0
    /\ positions = {}
    /\ trades = {}
    /\ seen_open_tickets = InitialBaseline(positions, trades)
    /\ pc = "idle"
    /\ snap = {}
    /\ deals = {}
    /\ todo = {}
    /\ attempts = 0
    /\ exec = NoCall
    /\ tickNo = 0
    /\ lastTick = "none"
    /\ durable = {}
    /\ emitted = {}

\* No position row has been written with its values yet.
NoSnapshot == [ticket |-> 0, profit |-> 0]

UpsertInit ==
    /\ ptable = {}
    /\ lastUp = NoSnapshot
    /\ upCount = 0

\* INSERT INTO bridge_status (id, last_seen, status, positions_count)
\* VALUES (1, NOW(), 'offline', 0)
HeartbeatInit ==
    /\ bridge_status = "offline"
    /\ hbFresh = FALSE

TableNames == {"positions", "trades", "bridge_status"}

NoRequest == [role |-> "none", cmd |-> "none", table |-> "none", granted |-> FALSE]

\* The two schema scripts of the repository.
Schemas == {"earlier", "later"}

\* The policies do not read the row (USING (true), USING (false)), so one row
\* per table is followed: it is "absent", or stored in one of two versions.
NoRows == [tb \in TableNames |-> "absent"]

AccessInit ==
    /\ db = NoRows
    /\ schema = "later"
    /\ lastReq = NoRequest

\* A hook on its first render: useState([]), useState(true), useState(null);
\* the effect has not run yet.
HookInit ==
    /\ viewPositions = <<>>
    /\ loading = TRUE
    /\ error = "null"
    /\ mounted = TRUE
    /\ subscription = "null"
    /\ pending = {}
    /\ events = <<>>
    /\ writes = 0
    /\ viewTrades = <<>>
    /\ limit = MaxLimit
    /\ lastTradeId = 0
    /\ viewStatus = <<>>
    /\ statusRow = [last_seen |-> 0, status |-> "offline"]

Init ==
    /\ BridgeInit
    /\ UpsertInit
    /\ HeartbeatInit
    /\ AccessInit
    /\ HookInit

\* The process dies (at any point of a tick) and main.py is started again:
\* the store keeps its rows, the memory of the process starts afresh.
Restart ==
    /\ seen_open_tickets' = InitialBaseline(positions, trades)
    /\ pc' = "idle"
    /\ snap' = {}
    /\ deals' = {}
    /\ todo' = {}
    /\ attempts' = 0
    /\ exec' = NoCall
    /\ tickNo' = 0
    /\ lastTick' = "none"
    /\ durable' = StoreOpen(positions, trades)
    /\ emitted' = {}
    /\ UNCHANGED <<termOpen, termClosed, now, positions, trades>>

\* Variant: the next tick is started on a timer, also while the calls of
\* process_closed_tickets of the tick before are still under way.
StartTickOnTimer ==
    /\ pc \in {"idle", "process"}
    /\ pc' = "fetch"
    /\ tickNo' = IF tickNo < 2 THEN tickNo + 1 ELSE 2
    /\ emitted' = {}
    /\ durable' = IF tickNo = 0 THEN durable ELSE {}
    /\ UNCHANGED <<termOpen, termClosed, now, positions, trades, seen_open_tickets,
                   snap, deals, todo, attempts, exec, lastTick>>

\* while True: try:
StartTick ==
    /\ pc = "idle"
    /\ pc' = "fetch"
    /\ tickNo' = IF tickNo < 2 THEN tickNo + 1 ELSE 2
    /\ emitted' = {}
    /\ durable' = IF tickNo = 0 THEN durable ELSE {}
    /\ UNCHANGED <<termOpen, termClosed, now, positions, trades, seen_open_tickets,
                   snap, deals, todo, attempts, exec, lastTick>>

\* positions = mt5_client.get_open_positions(): the complete open list.
FetchOk ==
    /\ pc = "fetch"
    /\ snap' = termOpen
    /\ deals' = termClosed
    /\ pc' = "upsert"
    /\ SucceededAttempt
    /\ UNCHANGED <<termOpen, termClosed, now, positions, trades, seen_open_tickets,
                   todo, tickNo, lastTick, durable, emitted>>

FetchFail ==
    /\ pc = "fetch"
    /\ FailedAttempt
    /\ UNCHANGED <<termOpen, termClosed, now, positions, trades, snap, deals,
                   tickNo, durable, emitted>>

RECURSIVE AppendAll(_, _, _, _)
AppendAll(tbl, S, a, ts) ==
    IF S = {} THEN tbl
    ELSE LET t == CHOOSE x \in S : \A y \in S : x <= y
         IN  AppendAll(append_trade(tbl, t, a, ts), S \ {t}, a, ts)

\* supabase_client.upsert_positions(positions) returned; then
\* current_tickets = {p['ticket'] for p in positions} and
\* closed = detect_closes(seen_open_tickets, current_tickets).  The loop has
\* no step that appends an OPEN: detect_opens is empty, and trades and emitted
\* stay as they are.
UpsertOk ==
    /\ pc = "upsert"
    /\ positions' = upsert_positions(positions, snap)
    /\ trades' = AppendAll(trades, detect_opens(seen_open_tickets, snap), "OPEN", now)
    /\ emitted' = emitted \cup {<<t, "OPEN">> : t \in detect_opens(seen_open_tickets, snap)}
    /\ todo' = detect_closes(seen_open_tickets, snap)
    /\ pc' = "process"
    /\ SucceededAttempt
    /\ UNCHANGED <<termOpen, termClosed, now, seen_open_tickets, snap, deals,
                   tickNo, lastTick, durable>>

\* The upsert was committed by the store but its answer was lost (timeout).
UpsertTimeout ==
    /\ pc = "upsert"
    /\ positions' = upsert_positions(positions, snap)
    /\ FailedAttempt
    /\ UNCHANGED <<termOpen, termClosed, now, trades, snap, deals,
                   tickNo, durable, emitted>>

UpsertFail ==
    /\ pc = "upsert"
    /\ FailedAttempt
    /\ UNCHANGED <<termOpen, termClosed, now, positions, trades, snap, deals,
                   tickNo, durable, emitted>>

\* process_closed_tickets: the CLOSE of one closed ticket is appended to trades
\* and the store's answer arrives.  A trade that is already there counts as
\* appended.
ProcessClosedOk(t) ==
    /\ pc = "process"
    /\ t \in todo
    /\ trades' = append_trade(trades, t, "CLOSE", now)
    /\ emitted' = emitted \cup {<<t, "CLOSE">>}
    /\ IF OutcomeIsSuccess(InsertOutcome(trades, t, "CLOSE", now))
       THEN /\ todo' = todo \ {t}
            /\ exec' = IF InsertOutcome(trades, t, "CLOSE", now) = "duplicate"
                       THEN Duplicate(attempts + 1)
                       ELSE Success(attempts + 1)
            /\ attempts' = 0
            /\ UNCHANGED <<pc, lastTick, seen_open_tickets>>
       ELSE FailedAttempt
    /\ UNCHANGED <<termOpen, termClosed, now, positions, snap, deals, tickNo, durable>>

\* The insert was committed by the store but its answer was lost (timeout).
ProcessClosedTimeout(t) ==
    /\ pc = "process"
    /\ t \in todo
    /\ trades' = append_trade(trades, t, "CLOSE", now)
    /\ emitted' = emitted \cup {<<t, "CLOSE">>}
    /\ FailedAttempt
    /\ UNCHANGED <<termOpen, termClosed, now, positions, snap, deals, tickNo, durable>>

ProcessClosedFail(t) ==
    /\ pc = "process"
    /\ t \in todo
    /\ FailedAttempt
    /\ UNCHANGED <<termOpen, termClosed, now, positions, trades, snap, deals,
                   tickNo, durable, emitted>>

\* seen_open_tickets = current_tickets; time.sleep(UPDATE_MS / 1000)
EndTick ==
    /\ pc = "process"
    /\ todo = {}
    /\ seen_open_tickets' = snap
    /\ pc' = "idle"
    /\ lastTick' = "ok"
    /\ UNCHANGED <<termOpen, termClosed, now, positions, trades, snap, deals, todo,
                   attempts, exec, tickNo, durable, emitted>>

\* The steps of the terminal, of the bridge process and of its loop.
BridgeNext ==
    \/ \E t \in Tickets : OpenPosition(t)
    \/ \E t \in Tickets : ClosePosition(t)
    \/ AdvanceClock
    \/ Restart
    \/ StartTick
    \/ FetchOk
    \/ FetchFail
    \/ UpsertOk
    \/ UpsertTimeout
    \/ UpsertFail
    \/ \E t \in Tickets : ProcessClosedOk(t)
    \/ \E t \in Tickets : ProcessClosedTimeout(t)
    \/ \E t \in Tickets : ProcessClosedFail(t)
    \/ EndTick

\* In the bridge loop's specification the other parts of the store stay as
\* they are.
Next ==
    \/ (\E t \in Tickets : OpenPosition(t)) /\ UNCHANGED <<upsertVars, heartbeatVars, accessVars, hookVars>>
    \/ (\E t \in Tickets : ClosePosition(t)) /\ UNCHANGED <<upsertVars, heartbeatVars, accessVars, hookVars>>
    \/ (AdvanceClock) /\ UNCHANGED <<upsertVars, heartbeatVars, accessVars, hookVars>>
    \/ (Restart) /\ UNCHANGED <<upsertVars, heartbeatVars, accessVars, hookVars>>
    \/ (StartTick) /\ UNCHANGED <<upsertVars, heartbeatVars, accessVars, hookVars>>
    \/ (FetchOk) /\ UNCHANGED <<upsertVars, heartbeatVars, accessVars, hookVars>>
    \/ (FetchFail) /\ UNCHANGED <<upsertVars, heartbeatVars, accessVars, hookVars>>
    \/ (UpsertOk) /\ UNCHANGED <<upsertVars, heartbeatVars, accessVars, hookVars>>
    \/ (UpsertTimeout) /\ UNCHANGED <<upsertVars, heartbeatVars, accessVars, hookVars>>
    \/ (UpsertFail) /\ UNCHANGED <<upsertVars, heartbeatVars, accessVars, hookVars>>
    \/ (\E t \in Tickets : ProcessClosedOk(t)) /\ UNCHANGED <<upsertVars, heartbeatVars, accessVars, hookVars>>
    \/ (\E t \in Tickets : ProcessClosedTimeout(t)) /\ UNCHANGED <<upsertVars, heartbeatVars, accessVars, hookVars>>
    \/ (\E t \in Tickets : ProcessClosedFail(t)) /\ UNCHANGED <<upsertVars, heartbeatVars, accessVars, hookVars>>
    \/ (EndTick) /\ UNCHANGED <<upsertVars, heartbeatVars, accessVars, hookVars>>

Spec == Init /\ [][Next]_vars

TypeOK ==
    /\ termOpen \subseteq Tickets /\ termClosed \subseteq Tickets
    /\ termOpen \cap termClosed = {}
    /\ now \in Times
    /\ positions \subseteq Tickets
    /\ trades \subseteq [ticket : Tickets, action : TradeActions, timestamp : Times]
    /\ seen_open_tickets \subseteq Tickets /\ snap \subseteq Tickets
    /\ deals \subseteq Tickets /\ todo \subseteq Tickets /\ durable \subseteq Tickets
    /\ pc \in {"idle", "fetch", "upsert", "process"}
    /\ attempts \in 0..MaxAttempts
    /\ tickNo \in 0..2
    /\ lastTick \in {"none", "ok", "failed"}
    /\ emitted \subseteq Tickets \X TradeActions

\* The bridge without process restarts, with the scheduling the loop has: the
\* loop always goes on to its next step, and a call that is tried again and
\* again eventually succeeds (for each ticket, where the call is per ticket).
NextRunning ==
    \/ (\E t \in Tickets : OpenPosition(t)) /\ UNCHANGED <<upsertVars, heartbeatVars, accessVars, hookVars>>
    \/ (\E t \in Tickets : ClosePosition(t)) /\ UNCHANGED <<upsertVars, heartbeatVars, accessVars, hookVars>>
    \/ (AdvanceClock) /\ UNCHANGED <<upsertVars, heartbeatVars, accessVars, hookVars>>
    \/ (StartTick) /\ UNCHANGED <<upsertVars, heartbeatVars, accessVars, hookVars>>
    \/ (FetchOk) /\ UNCHANGED <<upsertVars, heartbeatVars, accessVars, hookVars>>
    \/ (FetchFail) /\ UNCHANGED <<upsertVars, heartbeatVars, accessVars, hookVars>>
    \/ (UpsertOk) /\ UNCHANGED <<upsertVars, heartbeatVars, accessVars, hookVars>>
    \/ (UpsertTimeout) /\ UNCHANGED <<upsertVars, heartbeatVars, accessVars, hookVars>>
    \/ (UpsertFail) /\ UNCHANGED <<upsertVars, heartbeatVars, accessVars, hookVars>>
    \/ (\E t \in Tickets : ProcessClosedOk(t)) /\ UNCHANGED <<upsertVars, heartbeatVars, accessVars, hookVars>>
    \/ (\E t \in Tickets : ProcessClosedTimeout(t)) /\ UNCHANGED <<upsertVars, heartbeatVars, accessVars, hookVars>>
    \/ (\E t \in Tickets : ProcessClosedFail(t)) /\ UNCHANGED <<upsertVars, heartbeatVars, accessVars, hookVars>>
    \/ (EndTick) /\ UNCHANGED <<upsertVars, heartbeatVars, accessVars, hookVars>>

FairSpec ==
    /\ Init
    /\ [][NextRunning]_vars
    /\ WF_bridgeVars(StartTick)
    /\ WF_bridgeVars(EndTick)
    /\ SF_bridgeVars(FetchOk)
    /\ SF_bridgeVars(UpsertOk)
    /\ \A t \in Tickets : SF_bridgeVars(ProcessClosedOk(t))

----------------------------------------------------------------------------
\* The bridge loop with a source that can return a malformed record.

\* get_open_positions() returns the open list with the record of ticket t
\* malformed (a column the table requires is missing).  main_loop passes the
\* list as it is to upsert_positions, whose single statement the store
\* refuses as a whole; the exception ends the tick in the except clause.
FetchMalformed(t) ==
    /\ pc = "fetch"
    /\ t \in termOpen
    /\ snap' = termOpen
    /\ deals' = termClosed
    /\ exec' = Rejected(t)
    /\ attempts' = 0
    /\ pc' = "idle"
    /\ lastTick' = "failed"
    /\ todo' = {}
    /\ seen_open_tickets' = BaselineAfterException(seen_open_tickets, termOpen)
    /\ UNCHANGED <<termOpen, termClosed, now, positions, trades, tickNo, durable, emitted>>

ValidationNext ==
    \/ Next
    \/ (\E t \in Tickets : FetchMalformed(t))
            /\ UNCHANGED <<upsertVars, heartbeatVars, accessVars, hookVars>>

ValidationSpec == Init /\ [][ValidationNext]_vars

----------------------------------------------------------------------------
\* Row level security: statements of the frontend (anon key) and of the bridge
\* (service role key) on the three tables.

Roles == {"anon", "service_role"}
Commands == {"SELECT", "INSERT", "UPDATE", "DELETE"}

Policy(name, tb, cmd, role, passes) ==
    [name |-> name, table |-> tb, cmd |-> cmd, role |-> role, passes |-> passes]

\* CREATE POLICY ... of the two scripts.  (The later script gives its three
\* blocking policies of a table one name; where the store refuses the second
\* and third, the policies that exist are those of the earlier script.)
Policies(sch) ==
    {Policy("Allow read access", tb, "SELECT", "anon", TRUE) : tb \in TableNames}
    \cup {Policy("Block anon writes", tb, "INSERT", "anon", FALSE) : tb \in TableNames}
    \cup IF sch = "later"
         THEN {Policy("Block anon writes", tb, cmd, "anon", FALSE) :
                    tb \in TableNames, cmd \in {"UPDATE", "DELETE"}}
         ELSE {}

\* Variant: a statement passes unless a policy blocks it.
PermittedUnlessBlocked(role, cmd, tb, sch) ==
    \/ role = "service_role"
    \/ ~\E pol \in Policies(sch) :
            pol.table = tb /\ pol.cmd = cmd /\ pol.role = role /\ ~pol.passes

\* ENABLE ROW LEVEL SECURITY: the service role bypasses the policies; for any
\* other role a statement passes only if a policy for that command, table and
\* role passes it (no policy: denied).
Permitted(role, cmd, tb, sch) ==
    \/ role = "service_role"
    \/ \E pol \in Policies(sch) :
            pol.table = tb /\ pol.cmd = cmd /\ pol.role = role /\ pol.passes

\* The row after a statement that passed.
Applied(cmd, ver) ==
    CASE cmd = "INSERT" -> IF ver = "absent" THEN "first" ELSE ver
      [] cmd = "UPDATE" -> IF ver = "absent" THEN ver
                           ELSE IF ver = "first" THEN "updated" ELSE "first"
      [] cmd = "DELETE" -> "absent"
      [] OTHER -> ver

\* A client sends one statement about the row of table tb.
SqlRequest(role, cmd, tb) ==
    /\ db' = IF Permitted(role, cmd, tb, schema)
             THEN [db EXCEPT ![tb] = Applied(cmd, db[tb])]
             ELSE db
    /\ lastReq' = [role |-> role, cmd |-> cmd, table |-> tb,
                   granted |-> Permitted(role, cmd, tb, schema)]
    /\ UNCHANGED schema

AccessSpecInit ==
    /\ BridgeInit
    /\ UpsertInit
    /\ HeartbeatInit
    /\ db = NoRows
    /\ schema \in Schemas
    /\ lastReq = NoRequest
    /\ HookInit

AccessNext ==
    \E role \in Roles, cmd \in Commands, tb \in TableNames :
        SqlRequest(role, cmd, tb) /\ UNCHANGED <<bridgeVars, upsertVars, heartbeatVars, hookVars>>

AccessSpec == AccessSpecInit /\ [][AccessNext]_vars

----------------------------------------------------------------------------
\* Table positions with its values, under upserts of single rows.

UpsertPosition(p) ==
    /\ upCount < MaxUpserts
    /\ ptable' = upsert_row(ptable, p)
    /\ lastUp' = p
    /\ upCount' = upCount + 1

UpsertNext ==
    \E p \in PositionRows :
        UpsertPosition(p) /\ UNCHANGED <<bridgeVars, heartbeatVars, accessVars, hookVars>>

UpsertSpec == Init /\ [][UpsertNext]_vars

----------------------------------------------------------------------------
\* The bridge loop with send_heartbeat added to it.

\* 'status': 'healthy' -- the value send_heartbeat writes, whatever the tick
\* did.
HeartbeatStatus(outcome) == "healthy"

\* send_heartbeat, once the tick's work is over: upsert of the single row.
\* (When the upsert fails the row stays as it is and the loop goes on: the next
\* tick then starts with no heartbeat written.)
SendHeartbeat ==
    /\ pc = "idle"
    /\ lastTick # "none"
    /\ ~hbFresh
    /\ bridge_status' = HeartbeatStatus(lastTick)
    /\ hbFresh' = TRUE
    /\ UNCHANGED <<bridgeVars, upsertVars, accessVars, hookVars>>

HeartbeatNext ==
    \/ (\E t \in Tickets : OpenPosition(t)) /\ UNCHANGED <<upsertVars, heartbeatVars, accessVars, hookVars>>
    \/ (\E t \in Tickets : ClosePosition(t)) /\ UNCHANGED <<upsertVars, heartbeatVars, accessVars, hookVars>>
    \/ (AdvanceClock) /\ UNCHANGED <<upsertVars, heartbeatVars, accessVars, hookVars>>
    \/ (Restart) /\ hbFresh' = FALSE /\ UNCHANGED <<upsertVars, bridge_status, accessVars, hookVars>>
    \/ (StartTick) /\ hbFresh' = FALSE /\ UNCHANGED <<upsertVars, bridge_status, accessVars, hookVars>>
    \/ (FetchOk) /\ UNCHANGED <<upsertVars, heartbeatVars, accessVars, hookVars>>
    \/ (FetchFail) /\ UNCHANGED <<upsertVars, heartbeatVars, accessVars, hookVars>>
    \/ (UpsertOk) /\ UNCHANGED <<upsertVars, heartbeatVars, accessVars, hookVars>>
    \/ (UpsertTimeout) /\ UNCHANGED <<upsertVars, heartbeatVars, accessVars, hookVars>>
    \/ (UpsertFail) /\ UNCHANGED <<upsertVars, heartbeatVars, accessVars, hookVars>>
    \/ (\E t \in Tickets : ProcessClosedOk(t)) /\ UNCHANGED <<upsertVars, heartbeatVars, accessVars, hookVars>>
    \/ (\E t \in Tickets : ProcessClosedTimeout(t)) /\ UNCHANGED <<upsertVars, heartbeatVars, accessVars, hookVars>>
    \/ (\E t \in Tickets : ProcessClosedFail(t)) /\ UNCHANGED <<upsertVars, heartbeatVars, accessVars, hookVars>>
    \/ (EndTick) /\ UNCHANGED <<upsertVars, heartbeatVars, accessVars, hookVars>>
    \/ SendHeartbeat

HeartbeatSpec == Init /\ [][HeartbeatNext]_vars

----------------------------------------------------------------------------
\* useLivePositions: the hook, its realtime channel and table positions.

\* The rows the hook is followed with: two values of a column are enough to
\* tell an updated row from the row it replaces.
HookRows == {PositionRow(t, v) : t \in Tickets, v \in {0, 1}}

\* The rows of a table in the order of a query's answer (here: by ticket).
RECURSIVE AsList(_)
AsList(rows) ==
    IF rows = {} THEN <<>>
    ELSE LET first == CHOOSE r \in rows : \A q \in rows : r.ticket <= q.ticket
         IN  <<first>> \o AsList(rows \ {first})

\* The entries of a list, as a set.
Entries(list) == {list[i] : i \in DOMAIN list}

\* fetchPositions: the rows of the table; on an error of the query, [].
fetchPositions(tbl, ok) == IF ok THEN AsList(tbl) ELSE <<>>

\* The answer a fetch request of the hook will bring.  `failed` is not seen by
\* the hook: fetchPositions has turned the error into [].
Response(initial, tbl, ok) ==
    [initial |-> initial, data |-> fetchPositions(tbl, ok), failed |-> ~ok]

RealtimeEvent(type, new, old) == [eventType |-> type, new |-> new, old |-> old]

\* Variant: INSERT adds the record without looking for its ticket.
handleRealtimeUpdateBlind(prevPositions, payload) ==
    CASE payload.eventType = "INSERT" -> Append(prevPositions, payload.new)
      [] payload.eventType = "UPDATE" ->
            [i \in DOMAIN prevPositions |->
                IF prevPositions[i].ticket = payload.new.ticket
                THEN payload.new ELSE prevPositions[i]]
      [] payload.eventType = "DELETE" ->
            SelectSeq(prevPositions, LAMBDA pos : pos.ticket # payload.old.ticket)
      [] OTHER -> prevPositions

\* handleRealtimeUpdate of useLivePositions: the updater given to setPositions.
handleRealtimeUpdate(prevPositions, payload) ==
    CASE payload.eventType = "INSERT" ->
            IF \E i \in DOMAIN prevPositions : prevPositions[i].ticket = payload.new.ticket
            THEN prevPositions
            ELSE Append(prevPositions, payload.new)
      [] payload.eventType = "UPDATE" ->
            [i \in DOMAIN prevPositions |->
                IF prevPositions[i].ticket = payload.new.ticket
                THEN payload.new ELSE prevPositions[i]]
      [] payload.eventType = "DELETE" ->
            SelectSeq(prevPositions, LAMBDA pos : pos.ticket # payload.old.ticket)
      [] OTHER -> prevPositions

\* What the store sends to a joined channel for a write.
Published(q, ev) == IF subscription = "joined" THEN Append(q, ev) ELSE q

\* The bridge (or an operator) writes table positions: an upsert of a row, or
\* the delete of a row.
StoreUpsert(p) ==
    /\ writes < MaxWrites
    /\ ptable' = upsert_row(ptable, p)
    /\ events' = IF \E r \in ptable : r.ticket = p.ticket
                 THEN Published(events, RealtimeEvent("UPDATE", p,
                            CHOOSE r \in ptable : r.ticket = p.ticket))
                 ELSE Published(events, RealtimeEvent("INSERT", p, p))
    /\ writes' = writes + 1
    /\ UNCHANGED <<viewPositions, loading, error, mounted, subscription, pending>>

StoreDelete(p) ==
    /\ writes < MaxWrites
    /\ p \in ptable
    /\ ptable' = ptable \ {p}
    /\ events' = Published(events, RealtimeEvent("DELETE", p, p))
    /\ writes' = writes + 1
    /\ UNCHANGED <<viewPositions, loading, error, mounted, subscription, pending>>

\* fetchData up to its await: setError(null), and the query is on its way.
\* (The store answers from the table as it is now; the answer arrives later.)
FetchDataStart(initial, ok) ==
    /\ Cardinality(pending) < MaxPending
    /\ error' = IF mounted THEN "null" ELSE error
    /\ pending' = pending \cup {Response(initial, ptable, ok)}

\* The first effect has run (its initial fetch is on its way or has arrived).
EffectRan == subscription # "null" \/ \E r \in pending : r.initial

\* The effect runs after the first render: initializeData() calls fetchData().
InitializeData(ok) ==
    /\ mounted /\ ~EffectRan
    /\ FetchDataStart(TRUE, ok)
    /\ UNCHANGED <<ptable, viewPositions, loading, mounted, subscription, events, writes>>

\* Variant: no interval.
NoFallbackRefetch(ok) == FALSE /\ UNCHANGED vars

\* The interval of the second effect fires: if (!loading) fetchData().
FallbackRefetch(ok) ==
    /\ mounted /\ ~loading
    /\ FetchDataStart(FALSE, ok)
    /\ UNCHANGED <<ptable, viewPositions, loading, mounted, subscription, events, writes>>

\* refetch(): setLoading(true), then fetchData().
Refetch(ok) ==
    /\ mounted /\ EffectRan
    /\ loading' = TRUE
    /\ FetchDataStart(FALSE, ok)
    /\ UNCHANGED <<ptable, viewPositions, mounted, subscription, events, writes>>

\* The answer of a fetch arrives: setPositions(data), finally
\* setLoading(false).  initializeData, which awaited the initial fetchData(),
\* goes on to subscribeToPositions(handleRealtimeUpdate) -- whether or not
\* the component is still mounted.  (State setters of an unmounted component
\* do nothing.)
FetchDataDone(r) ==
    /\ r \in pending
    /\ pending' = pending \ {r}
    /\ viewPositions' = IF mounted THEN r.data ELSE viewPositions
    /\ loading' = IF mounted THEN FALSE ELSE loading
    /\ subscription' = IF r.initial THEN "joining" ELSE subscription
    /\ UNCHANGED <<ptable, error, mounted, events, writes>>

\* The realtime server has joined the channel: writes from now on are sent.
ChannelJoined ==
    /\ subscription = "joining"
    /\ subscription' = "joined"
    /\ UNCHANGED <<ptable, viewPositions, loading, error, mounted, pending, events, writes>>

\* An event arrives at the channel's callback.
RealtimeDelivered ==
    /\ events # <<>>
    /\ events' = Tail(events)
    /\ viewPositions' = IF mounted /\ subscription = "joined"
                        THEN handleRealtimeUpdate(viewPositions, Head(events))
                        ELSE viewPositions
    /\ UNCHANGED <<ptable, loading, error, mounted, subscription, pending, writes>>

\* The component unmounts: the effect's cleanup runs, if (subscription)
\* subscription.unsubscribe(); the interval is cleared.
Unmount ==
    /\ mounted /\ EffectRan
    /\ mounted' = FALSE
    /\ subscription' = IF subscription = "null" THEN "null" ELSE "closed"
    /\ events' = IF subscription = "null" THEN events ELSE <<>>
    /\ UNCHANGED <<ptable, viewPositions, loading, error, pending, writes>>

\* The hook, its channel and its table; the rest of the system stays as it is.
PositionsHookNext ==
    \/ (\E p \in HookRows : StoreUpsert(p))
          /\ UNCHANGED <<bridgeVars, lastUp, upCount, heartbeatVars, accessVars, tradesVars, statusVars>>
    \/ (\E p \in HookRows : StoreDelete(p))
          /\ UNCHANGED <<bridgeVars, lastUp, upCount, heartbeatVars, accessVars, tradesVars, statusVars>>
    \/ (\E ok \in BOOLEAN : InitializeData(ok))
          /\ UNCHANGED <<bridgeVars, lastUp, upCount, heartbeatVars, accessVars, tradesVars, statusVars>>
    \/ (\E ok \in BOOLEAN : FallbackRefetch(ok))
          /\ UNCHANGED <<bridgeVars, lastUp, upCount, heartbeatVars, accessVars, tradesVars, statusVars>>
    \/ (\E ok \in BOOLEAN : Refetch(ok))
          /\ UNCHANGED <<bridgeVars, lastUp, upCount, heartbeatVars, accessVars, tradesVars, statusVars>>
    \/ (\E r \in pending : FetchDataDone(r))
          /\ UNCHANGED <<bridgeVars, lastUp, upCount, heartbeatVars, accessVars, tradesVars, statusVars>>
    \/ (ChannelJoined)
          /\ UNCHANGED <<bridgeVars, lastUp, upCount, heartbeatVars, accessVars, tradesVars, statusVars>>
    \/ (RealtimeDelivered)
          /\ UNCHANGED <<bridgeVars, lastUp, upCount, heartbeatVars, accessVars, tradesVars, statusVars>>
    \/ (Unmount)
          /\ UNCHANGED <<bridgeVars, lastUp, upCount, heartbeatVars, accessVars, tradesVars, statusVars>>

PositionsHookSpec == Init /\ [][PositionsHookNext]_vars

\* The steps of the hook while it stays mounted.
PositionsHookRunning ==
    \/ (\E p \in HookRows : StoreUpsert(p))
          /\ UNCHANGED <<bridgeVars, lastUp, upCount, heartbeatVars, accessVars, tradesVars, statusVars>>
    \/ (\E p \in HookRows : StoreDelete(p))
          /\ UNCHANGED <<bridgeVars, lastUp, upCount, heartbeatVars, accessVars, tradesVars, statusVars>>
    \/ (\E ok \in BOOLEAN : InitializeData(ok))
          /\ UNCHANGED <<bridgeVars, lastUp, upCount, heartbeatVars, accessVars, tradesVars, statusVars>>
    \/ (\E ok \in BOOLEAN : FallbackRefetch(ok))
          /\ UNCHANGED <<bridgeVars, lastUp, upCount, heartbeatVars, accessVars, tradesVars, statusVars>>
    \/ (\E ok \in BOOLEAN : Refetch(ok))
          /\ UNCHANGED <<bridgeVars, lastUp, upCount, heartbeatVars, accessVars, tradesVars, statusVars>>
    \/ (\E r \in pending : FetchDataDone(r))
          /\ UNCHANGED <<bridgeVars, lastUp, upCount, heartbeatVars, accessVars, tradesVars, statusVars>>
    \/ (ChannelJoined)
          /\ UNCHANGED <<bridgeVars, lastUp, upCount, heartbeatVars, accessVars, tradesVars, statusVars>>
    \/ (RealtimeDelivered)
          /\ UNCHANGED <<bridgeVars, lastUp, upCount, heartbeatVars, accessVars, tradesVars, statusVars>>

\* The mounted hook with what its timers and the network guarantee: the effect
\* runs, a request is answered, the channel is joined, an event is delivered
\* and the interval keeps firing.
PositionsHookLive ==
    /\ Init
    /\ [][PositionsHookRunning]_vars
    /\ WF_positionsHookVars(\E ok \in BOOLEAN : InitializeData(ok))
    /\ WF_positionsHookVars(\E ok \in BOOLEAN : FallbackRefetch(ok))
    /\ WF_positionsHookVars(\E r \in pending : FetchDataDone(r))
    /\ WF_positionsHookVars(ChannelJoined)
    /\ WF_positionsHookVars(RealtimeDelivered)

----------------------------------------------------------------------------
\* useLiveTrades: the hook, its realtime channel and table trades.

\* A row of table trades as the hook holds it: id is the SERIAL key of the
\* table and rows are stamped in the order in which they are inserted.
Trade(id) == [id |-> id, timestamp |-> id]

\* The limits the hook is mounted with.
Limits == 1..MaxLimit

\* .order('timestamp', { ascending: false }).limit(n) over rows 1..last
RECURSIVE RecentFirst(_, _)
RecentFirst(last, n) ==
    IF last = 0 \/ n = 0 THEN <<>>
    ELSE <<Trade(last)>> \o RecentFirst(last - 1, n - 1)

\* fetchRecentTrades: the newest rows, or [] when the query returns an error.
fetchRecentTrades(last, lim, ok) == IF ok THEN RecentFirst(last, lim) ELSE <<>>

\* What a fetchData call of useLiveTrades will bring, fixed when the store
\* runs the query.
TradesResponse(initial, last, lim, ok) ==
    [initial |-> initial, data |-> fetchRecentTrades(last, lim, ok), failed |-> ~ok]

\* Array.prototype.slice(0, n) for n >= 0
slice(list, n) == SubSeq(list, 1, IF Len(list) < n THEN Len(list) ELSE n)

\* The handler without its slice.
handleTradesRealtimeUpdateUnbounded(prevTrades, payload, lim) ==
    IF payload.eventType = "INSERT"
    THEN <<payload.new>> \o prevTrades
    ELSE prevTrades

\* handleRealtimeUpdate of useLiveTrades: the updater given to setTrades.
handleTradesRealtimeUpdate(prevTrades, payload, lim) ==
    IF payload.eventType = "INSERT"
    THEN slice(<<payload.new>> \o prevTrades, lim)
    ELSE prevTrades

\* The bridge appends a row to table trades.
TradeInserted ==
    /\ lastTradeId < MaxWrites
    /\ lastTradeId' = lastTradeId + 1
    /\ events' = Published(events, RealtimeEvent("INSERT", Trade(lastTradeId + 1),
                                                 Trade(lastTradeId + 1)))
    /\ UNCHANGED <<viewTrades, limit, loading, error, mounted, subscription, pending>>

\* fetchData up to its await: setError(null), and the query is sent.
TradesFetchDataStart(initial, ok) ==
    /\ Cardinality(pending) < MaxPending
    /\ error' = IF mounted THEN "null" ELSE error
    /\ pending' = pending \cup {TradesResponse(initial, lastTradeId, limit, ok)}

\* The effect runs after mount: initializeData() awaits fetchData().
TradesInitializeData(ok) ==
    /\ mounted /\ ~EffectRan
    /\ TradesFetchDataStart(TRUE, ok)
    /\ UNCHANGED <<tradesVars, loading, mounted, subscription, events>>

\* refetch: setLoading(true); await fetchData()
TradesRefetch(ok) ==
    /\ mounted /\ EffectRan
    /\ loading' = TRUE
    /\ TradesFetchDataStart(FALSE, ok)
    /\ UNCHANGED <<tradesVars, mounted, subscription, events>>

\* The answer arrives: setTrades(data), finally setLoading(false); after the
\* first fetch initializeData goes on and subscribes.
TradesFetchDataDone(r) ==
    /\ r \in pending
    /\ pending' = pending \ {r}
    /\ viewTrades' = IF mounted THEN r.data ELSE viewTrades
    /\ loading' = IF mounted THEN FALSE ELSE loading
    /\ subscription' = IF r.initial THEN "joining" ELSE subscription
    /\ UNCHANGED <<limit, lastTradeId, error, mounted, events>>

\* An event arrives at the channel's callback.
TradesRealtimeDelivered ==
    /\ events # <<>>
    /\ events' = Tail(events)
    /\ viewTrades' = IF mounted /\ subscription = "joined"
                     THEN handleTradesRealtimeUpdate(viewTrades, Head(events), limit)
                     ELSE viewTrades
    /\ UNCHANGED <<limit, lastTradeId, loading, error, mounted, subscription, pending>>

\* The hook is mounted with some limit.
TradesHookInit ==
    /\ BridgeInit
    /\ UpsertInit
    /\ HeartbeatInit
    /\ AccessInit
    /\ viewPositions = <<>>
    /\ loading = TRUE
    /\ error = "null"
    /\ mounted = TRUE
    /\ subscription = "null"
    /\ pending = {}
    /\ events = <<>>
    /\ writes = 0
    /\ viewTrades = <<>>
    /\ limit \in Limits
    /\ lastTradeId = 0
    /\ viewStatus = <<>>
    /\ statusRow = [last_seen |-> 0, status |-> "offline"]

TradesHookNext ==
    \/ (\E ok \in BOOLEAN : TradesInitializeData(ok))
          /\ UNCHANGED <<bridgeVars, upsertVars, heartbeatVars, accessVars, viewPositions, writes, statusVars>>
    \/ (\E ok \in BOOLEAN : TradesRefetch(ok))
          /\ UNCHANGED <<bridgeVars, upsertVars, heartbeatVars, accessVars, viewPositions, writes, statusVars>>
    \/ (\E r \in pending : TradesFetchDataDone(r))
          /\ UNCHANGED <<bridgeVars, upsertVars, heartbeatVars, accessVars, viewPositions, writes, statusVars>>
    \/ (TradeInserted)
          /\ UNCHANGED <<bridgeVars, upsertVars, heartbeatVars, accessVars, viewPositions, writes, statusVars>>
    \/ (TradesRealtimeDelivered)
          /\ UNCHANGED <<bridgeVars, upsertVars, heartbeatVars, accessVars, viewPositions, writes, statusVars>>
    \/ (ChannelJoined)
          /\ UNCHANGED <<bridgeVars, upsertVars, heartbeatVars, accessVars, viewPositions, writes, statusVars, tradesVars>>
    \/ (Unmount)
          /\ UNCHANGED <<bridgeVars, upsertVars, heartbeatVars, accessVars, viewPositions, writes, statusVars, tradesVars>>

TradesHookSpec == TradesHookInit /\ [][TradesHookNext]_vars

----------------------------------------------------------------------------
\* useBridgeStatus: the hook, its realtime channel and table bridge_status.

\* The values column status, a VARCHAR(20), is given by the writers of the row.
StatusValues == {"healthy", "degraded", "offline", "error"}

\* The row of table bridge_status, by the columns the hook decides on.
BridgeStatus(seen, st) == [last_seen |-> seen, status |-> st]

\* BridgeStatus | null
Null == <<>>
Some(record) == <<record>>

\* The derived values of the hook: status?.status === '...'
isHealthy(status) == status # Null /\ status[1].status = "healthy"
isOffline(status) == status # Null /\ status[1].status = "offline"
isError(status) == status # Null /\ status[1].status = "error"

\* fetchBridgeStatus: the row, or null when the query returns an error.
fetchBridgeStatus(row, ok) == IF ok THEN Some(row) ELSE Null

\* What a fetchData call of useBridgeStatus will bring, fixed when the store
\* runs the query.
StatusResponse(initial, row, ok) ==
    [initial |-> initial, data |-> fetchBridgeStatus(row, ok), failed |-> ~ok]

\* handleRealtimeUpdate of useBridgeStatus: the value given to setStatus.
handleStatusRealtimeUpdate(prevStatus, payload) ==
    IF payload.eventType = "UPDATE" THEN Some(payload.new) ELSE prevStatus

\* A heartbeat of the bridge: the row is updated in place, later than before.
HeartbeatWritten(st) ==
    /\ statusRow.last_seen < MaxWrites
    /\ statusRow' = BridgeStatus(statusRow.last_seen + 1, st)
    /\ events' = Published(events, RealtimeEvent("UPDATE", statusRow', statusRow))
    /\ UNCHANGED <<viewStatus, loading, error, mounted, subscription, pending>>

\* fetchData up to its await: setError(null), and the query is sent.
StatusFetchDataStart(initial, ok) ==
    /\ Cardinality(pending) < MaxPending
    /\ error' = IF mounted THEN "null" ELSE error
    /\ pending' = pending \cup {StatusResponse(initial, statusRow, ok)}

\* The effect runs after mount: initializeData() awaits fetchData().
StatusInitializeData(ok) ==
    /\ mounted /\ ~EffectRan
    /\ StatusFetchDataStart(TRUE, ok)
    /\ UNCHANGED <<statusVars, loading, mounted, subscription, events>>

\* The 15 s interval: if (!loading) fetchData()
StatusFallbackRefetch(ok) ==
    /\ mounted /\ ~loading
    /\ StatusFetchDataStart(FALSE, ok)
    /\ UNCHANGED <<statusVars, loading, mounted, subscription, events>>

\* refetch: setLoading(true); await fetchData()
StatusRefetch(ok) ==
    /\ mounted /\ EffectRan
    /\ loading' = TRUE
    /\ StatusFetchDataStart(FALSE, ok)
    /\ UNCHANGED <<statusVars, mounted, subscription, events>>

\* The answer arrives: setStatus(data), finally setLoading(false); after the
\* first fetch initializeData goes on and subscribes.
StatusFetchDataDone(r) ==
    /\ r \in pending
    /\ pending' = pending \ {r}
    /\ viewStatus' = IF mounted THEN r.data ELSE viewStatus
    /\ loading' = IF mounted THEN FALSE ELSE loading
    /\ subscription' = IF r.initial THEN "joining" ELSE subscription
    /\ UNCHANGED <<statusRow, error, mounted, events>>

\* An event arrives at the channel's callback.
StatusRealtimeDelivered ==
    /\ events # <<>>
    /\ events' = Tail(events)
    /\ viewStatus' = IF mounted /\ subscription = "joined"
                     THEN handleStatusRealtimeUpdate(viewStatus, Head(events))
                     ELSE viewStatus
    /\ UNCHANGED <<statusRow, loading, error, mounted, subscription, pending>>

StatusHookNext ==
    \/ (\E st \in StatusValues : HeartbeatWritten(st))
          /\ UNCHANGED <<bridgeVars, upsertVars, heartbeatVars, accessVars, viewPositions, writes, tradesVars>>
    \/ (\E ok \in BOOLEAN : StatusInitializeData(ok))
          /\ UNCHANGED <<bridgeVars, upsertVars, heartbeatVars, accessVars, viewPositions, writes, tradesVars>>
    \/ (\E ok \in BOOLEAN : StatusFallbackRefetch(ok))
          /\ UNCHANGED <<bridgeVars, upsertVars, heartbeatVars, accessVars, viewPositions, writes, tradesVars>>
    \/ (\E ok \in BOOLEAN : StatusRefetch(ok))
          /\ UNCHANGED <<bridgeVars, upsertVars, heartbeatVars, accessVars, viewPositions, writes, tradesVars>>
    \/ (\E r \in pending : StatusFetchDataDone(r))
          /\ UNCHANGED <<bridgeVars, upsertVars, heartbeatVars, accessVars, viewPositions, writes, tradesVars>>
    \/ (StatusRealtimeDelivered)
          /\ UNCHANGED <<bridgeVars, upsertVars, heartbeatVars, accessVars, viewPositions, writes, tradesVars>>
    \/ (ChannelJoined)
          /\ UNCHANGED <<bridgeVars, upsertVars, heartbeatVars, accessVars, viewPositions, writes, tradesVars, statusVars>>
    \/ (Unmount)
          /\ UNCHANGED <<bridgeVars, upsertVars, heartbeatVars, accessVars, viewPositions, writes, tradesVars, statusVars>>

StatusHookSpec == Init /\ [][StatusHookNext]_vars

----------------------------------------------------------------------------
\* Properties.

OpensEmitted == {t \in Tickets : <<t, "OPEN">> \in emitted}
ClosesEmitted == {t \in Tickets : <<t, "CLOSE">> \in emitted}

\* A tick has run through all its calls without a failure and is about to
\* replace the baseline; the baseline is still the one the tick started with.
TickSucceeding == pc = "process" /\ todo = {}

\* The last tick ended without a failure and the loop is asleep.
TickSucceeded == pc = "idle" /\ lastTick = "ok"

\* C1 (restart safety): when the first tick after a (re)start has succeeded,
\* every ticket the store held as open at the (re)start and that is absent from
\* that tick's snapshot has had a CLOSE emitted in that tick, and the trade log
\* holds exactly one CLOSE row for it.
C1_RestartSafety ==
    (tickNo = 1 /\ TickSucceeded) =>
        \A t \in durable \ snap :
            t \in ClosesEmitted /\ RowCount(trades, t, "CLOSE") = 1

\* C2 (no phantom opens after restart): during and after the first tick that
\* follows a (re)start, no OPEN has been emitted for a ticket the store held
\* as open at the (re)start.
C2_NoPhantomOpens ==
    tickNo = 1 => \A t \in durable : t \notin OpensEmitted

\* The first tick after a restart succeeded with a ticket that was open in the
\* store at the restart and is still open at the terminal.
C2_Witness ==
    /\ tickNo = 1 /\ TickSucceeded
    /\ \E t \in durable : t \in snap /\ t \in termOpen /\ t \in positions

\* C3 (trade-log shape): in every state, for every ticket the persisted events
\* are [], [OPEN] or [OPEN, CLOSE]: at most one row of each action, and a CLOSE
\* row only when an OPEN row exists.
C3_TradeLogShape ==
    \A t \in Tickets :
        /\ RowCount(trades, t, "OPEN") <= 1
        /\ RowCount(trades, t, "CLOSE") <= 1
        /\ HasRow(trades, t, "CLOSE") => HasRow(trades, t, "OPEN")

\* C4 (at-most-once trade persistence): after any sequence of inserts, retries
\* with a new timestamp included, the trade log holds at most one row per
\* (ticket, action).
C4_AtMostOncePerTicketAction ==
    \A t \in Tickets : \A a \in TradeActions : RowCount(trades, t, a) <= 1

\* C5 (degraded tick preserves baseline): a step that ends a tick as failed
\* leaves the baseline as it was, and the baseline changes only in the step
\* that ends a tick all of whose calls succeeded (to that tick's snapshot) or
\* when the process restarts.
C5_DegradedKeepsBaseline ==
    [][ /\ (pc # "idle" /\ pc' = "idle" /\ lastTick' = "failed")
            => seen_open_tickets' = seen_open_tickets
        /\ (seen_open_tickets' # seen_open_tickets)
            => \/ TickSucceeding /\ lastTick' = "ok" /\ seen_open_tickets' = snap
               \/ tickNo' = 0 /\ lastTick' = "none"
      ]_vars

\* A tick failed after its fetch, with a snapshot that differs from the
\* non-empty baseline, and the baseline is still in place.
C5_Witness ==
    /\ pc = "idle" /\ lastTick = "failed"
    /\ exec = Failure(MaxAttempts)
    /\ seen_open_tickets # {}
    /\ snap # seen_open_tickets

\* C6 (reconcile diff): a tick whose calls all succeeded has emitted an OPEN for
\* exactly the tickets of the snapshot that are not in the baseline and a CLOSE
\* for exactly the tickets of the baseline that are not in the snapshot, and it
\* leaves the baseline equal to the snapshot.
C6_ReconcileDiff ==
    /\ TickSucceeding =>
            /\ OpensEmitted = snap \ seen_open_tickets
            /\ ClosesEmitted = seen_open_tickets \ snap
    /\ TickSucceeded => seen_open_tickets = snap

\* C7 (same-tick open+close): when a tick has succeeded, every ticket of the
\* closed-deals feed that is neither in the baseline nor in the snapshot and
\* was never upserted has both an OPEN and a CLOSE row; and no such ticket has
\* a CLOSE row without its OPEN row.
C7_SameTickOpenClose ==
    \A t \in deals \ (seen_open_tickets \cup snap \cup positions) :
        /\ TickSucceeding =>
                HasRow(trades, t, "OPEN") /\ HasRow(trades, t, "CLOSE")
        /\ HasRow(trades, t, "CLOSE") => HasRow(trades, t, "OPEN")

\* C8 (at-least-once production): every open the diff of a tick detects is
\* eventually in the trade log, and so is every close it detects.
C8_AtLeastOnce ==
    \A t \in Tickets :
        /\ (pc = "process" /\ t \in snap \ seen_open_tickets)
                ~> HasRow(trades, t, "OPEN")
        /\ (pc = "process" /\ t \in todo) ~> HasRow(trades, t, "CLOSE")

\* C9 (consistent open-position snapshot): after a tick that succeeded, the
\* tickets of table positions are those of the snapshot fetched in that tick.
C9_PositionsMatchSnapshot ==
    TickSucceeded => positions = snap

C13_RunningOnlyAfterRecovery ==
    (tickNo = 1 /\ pc = "fetch") => seen_open_tickets = durable

\* C14 (failure containment): a failed tick leaves the loop where the next
\* tick starts, with no call left half-way, and the heartbeat written after
\* the failed tick reports degraded.
C14_FailureContainment ==
    lastTick = "failed" /\ pc = "idle"
    => /\ attempts = 0
       /\ todo = {}
       /\ hbFresh => bridge_status = "degraded"

\* C16 (heartbeat status tracks tick outcome): the heartbeat written at the
\* end of a tick is healthy iff the tick succeeded, and degraded or offline
\* when the tick failed.
C16_HeartbeatTracksOutcome ==
    hbFresh /\ pc = "idle"
    => /\ bridge_status = "healthy" <=> lastTick = "ok"
       /\ lastTick = "failed" => bridge_status \in {"degraded", "offline"}

\* C15 (no tick overlap): while a tick fetches or upserts, no persistence step
\* of an earlier tick is pending: every CLOSE the tick before had to append
\* has been appended, or that tick has ended as failed and dropped its work.
C15_NoTickOverlap ==
    pc \in {"fetch", "upsert"} => todo = {}

\* The second tick fetches after the first one ended as failed in its
\* persistence step, having committed a trade row.
C15_Witness ==
    /\ tickNo = 2
    /\ pc = "fetch"
    /\ lastTick = "failed"
    /\ exec = Failure(MaxAttempts)
    /\ trades # {}

\* C17 (shutdown atomicity): the process exits only between ticks, and in the
\* state at exit every ticket with a position row has its OPEN in trades and
\* every ticket with a trade row has had its position written.
C17_ShutdownAtomicity ==
    [][ Restart
          => /\ pc = "idle"
             /\ \A t \in positions : HasRow(trades, t, "OPEN")
             /\ \A r \in trades : r.ticket \in positions
      ]_vars

\* C18 (read-only consumers): no statement sent with the anon role changes a
\* row of positions, trades or bridge_status, under either schema script; an
\* anon SELECT is granted on each of the tables, and every statement of the
\* service role is granted.
C18_ReadOnlyConsumers ==
    [][ \A cmd \in Commands, tb \in TableNames :
          /\ SqlRequest("anon", cmd, tb)
                => /\ db' = db
                   /\ lastReq'.granted <=> cmd = "SELECT"
          /\ SqlRequest("service_role", cmd, tb)
                => /\ lastReq'.granted
                   /\ db'[tb] = Applied(cmd, db[tb])
      ]_vars

\* The service role has inserted and updated a position row; an anon DELETE
\* of that row was then refused and the row is still there.
C18_Witness ==
    /\ lastReq = [role |-> "anon", cmd |-> "DELETE", table |-> "positions",
                  granted |-> FALSE]
    /\ db["positions"] = "updated"
    /\ schema = "earlier"

C20_ValidationPerRecord ==
    \A t \in Tickets :
        (pc = "idle" /\ exec = Rejected(t))
        => /\ lastTick = "ok"
           /\ snap \ {t} \subseteq positions
           /\ <<t, "CLOSE">> \notin emitted

\* The list the hook holds has exactly the rows of table positions.
ViewMatchesStore == Entries(viewPositions) = ptable

\* C21 (positions view converges): once the table has stopped changing, if
\* from some point on no fetch fails, then from some point on the list held
\* by useLivePositions equals the table.
C21_PositionsViewConverges ==
    (<>[](\A r \in pending : ~r.failed)) => <>[]ViewMatchesStore

\* A row was written after the initial fetch had read the table and before
\* the channel was joined: the view lacks it, and no event and no answer that
\* could bring it is on its way.
C21_Witness ==
    /\ subscription = "joined"
    /\ writes = MaxWrites
    /\ ~ViewMatchesStore
    /\ pending = {}
    /\ events = <<>>
    /\ mounted


\* C22 (subscription cleanup on unmount): once the component has unmounted, no
\* realtime channel that the hook created is joining or joined, also when the
\* unmount comes while the first fetchData of initializeData is still awaited.
C22_SubscriptionCleanup ==
    ~mounted => subscription \notin {"joining", "joined"}

\* No ticket occurs twice in the list.
UniqueTickets(list) ==
    \A i, j \in DOMAIN list : list[i].ticket = list[j].ticket => i = j

\* C25 (one entry per ticket in the positions view): whatever answers and
\* INSERT, UPDATE and DELETE events the hook has received, its list has at
\* most one entry per ticket.
C25_OneEntryPerTicket == UniqueTickets(viewPositions)

\* The next event is an INSERT of a ticket the list already has, and the
\* hook is about to handle it.
C25_Witness ==
    /\ mounted
    /\ subscription = "joined"
    /\ events # <<>>
    /\ Head(events).eventType = "INSERT"
    /\ \E i \in DOMAIN viewPositions :
           viewPositions[i].ticket = Head(events).new.ticket

\* C28 (failed fetch keeps data): when a fetch of the mounted hook fails, the
\* hook keeps the list it had, sets error to a message and sets loading to
\* false.
C28_FailedFetchKeepsData ==
    [][\A r \in pending :
          (mounted /\ r.failed /\ FetchDataDone(r)) =>
              /\ viewPositions' = viewPositions
              /\ error' # "null"
              /\ loading' = FALSE]_vars

\* A trade at the head of a list, followed by a beginning of another list.
HeadThenPrefix(list, trade, prev) ==
    /\ list # <<>>
    /\ Head(list) = trade
    /\ Len(list) - 1 <= Len(prev)
    /\ Tail(list) = SubSeq(prev, 1, Len(list) - 1)

\* C23 (bounded trade list): the list held by useLiveTrades(limit) never has
\* more than limit entries, and an INSERT event that the hook handles puts the
\* new trade at the head and keeps the entries before it in their order,
\* dropping from the tail.
C23_BoundedTradeList ==
    /\ [](Len(viewTrades) <= limit)
    /\ [][(TradesRealtimeDelivered /\ mounted /\ subscription = "joined") =>
              HeadThenPrefix(viewTrades', Head(events).new, viewTrades)]_vars

\* The list is full and an INSERT event is about to be handled.
C23_Witness ==
    /\ mounted
    /\ subscription = "joined"
    /\ events # <<>>
    /\ Len(viewTrades) = limit

\* C27 (no duplicate trades in the view): the list held by useLiveTrades has
\* no two entries with the same trade id.
C27_NoDuplicateTrades ==
    \A i, j \in DOMAIN viewTrades : viewTrades[i].id = viewTrades[j].id => i = j

\* How many of the three flags of the hook are true.
FlagsTrue(status) ==
    Cardinality({f \in {"isHealthy", "isOffline", "isError"} :
                    \/ f = "isHealthy" /\ isHealthy(status)
                    \/ f = "isOffline" /\ isOffline(status)
                    \/ f = "isError" /\ isError(status)})

\* C24 (heartbeat flags classify every status): while the hook holds a status
\* record exactly one of isHealthy, isOffline, isError is true, and while it
\* holds null none is.
C24_FlagsClassify ==
    FlagsTrue(viewStatus) = IF viewStatus = Null THEN 0 ELSE 1

\* C26 (heartbeat view never regresses): the last_seen of the record held by
\* useBridgeStatus never goes back from one record to the next.
C26_NeverRegresses ==
    [][(viewStatus # Null /\ viewStatus' # Null) =>
          viewStatus'[1].last_seen >= viewStatus[1].last_seen]_vars

=============================================================================
